---------------------------- MODULE Spec2Model ----------------------------
(***************************************************************************)
(* Cribbage (human vs AI), src/game.js: the scoring engine, the pegging    *)
(* AI and the round / pegging state machine driven by button clicks, card  *)
(* clicks and setTimeout callbacks.                                        *)
(*                                                                         *)
(* A card is a number 0..51 in makeDeck order (suit-major): card c has     *)
(* suit c \div 13 (0 = spades, 1 = hearts, 2 = diamonds, 3 = clubs) and    *)
(* rank index c % 13 (0 = 'A', 1 = '2', ..., 9 = '10', 10 = 'J',           *)
(* 11 = 'Q', 12 = 'K').  Time is counted in units of 100 ms.               *)
(***************************************************************************)
EXTENDS Integers, Sequences, FiniteSets, TLC

\* ── Constants ────────────────────────────────────────────
WIN_SCORE == 121

NumSuits == 4

NumRanks == 13

\* rank index of 'J' in RANKS
JackRank == 10

\* rank index of '5' in RANKS
FiveRank == 4

\* null for a card-valued field (Game.starter)
NoCard == 52

\* loser scores below this make the win a skunk
SkunkLine == 91

rank(c) == c % NumRanks

suit(c) == c \div NumRanks

\* RANK_ORDER: A = 1 .. K = 13
order(c) == rank(c) + 1

\* RANK_VALUES: A = 1, 2..10 face value, J = Q = K = 10
value(c) == IF order(c) > 10 THEN 10 ELSE order(c)

makeCard(r, s) == s * NumRanks + r

makeDeck == [i \in 1..(NumSuits * NumRanks) |-> i - 1]

\* ── Sequence helpers (Array.prototype) ───────────────────
RECURSIVE SumSeq(_)
SumSeq(s) == IF s = <<>> THEN 0 ELSE Head(s) + SumSeq(Tail(s))

\* arr.filter(keep)
Filter(s, keep(_)) ==
  LET f[i \in 0..Len(s)] ==
        IF i = 0 THEN <<>>
        ELSE IF keep(s[i]) THEN Append(f[i - 1], s[i]) ELSE f[i - 1]
  IN f[Len(s)]

\* arr.splice(idx, 1) on a 0-based index: the array without that element
RemoveAt(s, idx) == [i \in 1..(Len(s) - 1) |-> IF i <= idx THEN s[i] ELSE s[i + 1]]

\* arr.findIndex(c => c.rank === card.rank && c.suit === card.suit), -1 if absent
findIndex(s, card) ==
  IF \E i \in 1..Len(s) : s[i] = card
  THEN (CHOOSE i \in 1..Len(s) : s[i] = card /\ \A j \in 1..(i - 1) : s[j] # card) - 1
  ELSE -1

Range(s) == {s[i] : i \in 1..Len(s)}

\* numbers.sort((a, b) => a - b)
RECURSIVE SortNums(_)
SortNums(s) ==
  IF s = <<>> THEN <<>>
  ELSE LET m == CHOOSE i \in 1..Len(s) : \A j \in 1..Len(s) : s[i] <= s[j]
       IN <<s[m]>> \o SortNums(RemoveAt(s, m - 1))

\* ── Scoring Engine ───────────────────────────────────────
RECURSIVE combinations(_, _)
combinations(arr, k) ==
  IF k = 0 THEN << <<>> >>
  ELSE IF Len(arr) < k THEN <<>>
  ELSE LET first == Head(arr)
           rest == Tail(arr)
           withFirstTail == combinations(rest, k - 1)
           withFirst == [i \in 1..Len(withFirstTail) |-> <<first>> \o withFirstTail[i]]
           without == combinations(rest, k)
       IN withFirst \o without

\* the run test shared by scoreHand and scorePeg: sorted orders step by one
isRun(cards) ==
  LET sorted == SortNums([i \in 1..Len(cards) |-> order(cards[i])])
  IN \A i \in 2..Len(sorted) : sorted[i] = sorted[i - 1] + 1

\* one breakdown entry per combination that passes the test
Entries(combos, test(_), desc, points) ==
  LET hits == Filter(combos, test)
  IN [i \in 1..Len(hits) |-> [desc |-> desc, points |-> points]]

\* fifteens as it would be if only combinations of two cards were summed
fifteensOfTwo(all) ==
  LET isFifteen(combo) == SumSeq([i \in 1..Len(combo) |-> value(combo[i])]) = 15
      of(size) == Entries(combinations(all, size), isFifteen, "15", 2)
  IN of(2)

fifteens(all) ==
  LET isFifteen(combo) == SumSeq([i \in 1..Len(combo) |-> value(combo[i])]) = 15
      of(size) == Entries(combinations(all, size), isFifteen, "15", 2)
  IN of(2) \o of(3) \o of(4) \o of(5)

pairs(all) ==
  LET isPair(ab) == rank(ab[1]) = rank(ab[2])
  IN Entries(combinations(all, 2), isPair, "Pair", 2)

runDesc(len) ==
  CASE len = 3 -> "Run of 3"
    [] len = 4 -> "Run of 4"
    [] len = 5 -> "Run of 5"
    [] OTHER -> "Run"

\* longest runs first: all combinations of the best run length
runs(all) ==
  LET of(len) == Entries(combinations(all, len), isRun, runDesc(len), len)
  IN IF of(5) # <<>> THEN of(5)
     ELSE IF of(4) # <<>> THEN of(4)
     ELSE of(3)

\* flush as it would be if a crib scored a four-card flush as a hand does
flushCribFour(hand, starter, isCrib) ==
  IF \A i \in 1..Len(hand) : suit(hand[i]) = suit(hand[1])
  THEN IF Len(hand) > 0 /\ suit(starter) = suit(hand[1])
       THEN << [desc |-> "Flush: 5 cards", points |-> 5] >>
       ELSE << [desc |-> "Flush: 4 cards", points |-> 4] >>
  ELSE <<>>

flush(hand, starter, isCrib) ==
  IF \A i \in 1..Len(hand) : suit(hand[i]) = suit(hand[1])
  THEN IF Len(hand) > 0 /\ suit(starter) = suit(hand[1])
       THEN << [desc |-> "Flush: 5 cards", points |-> 5] >>
       ELSE IF ~isCrib THEN << [desc |-> "Flush: 4 cards", points |-> 4] >>
       ELSE <<>>
  ELSE <<>>

nobs(hand, starter) ==
  LET isNobs(c) == rank(c) = JackRank /\ suit(c) = suit(starter)
  IN Entries(hand, isNobs, "Nobs", 1)

totalOf(details) == SumSeq([i \in 1..Len(details) |-> details[i].points])

\* scoreHand(hand, starter, isCrib) for a non-null starter
scoreHand(hand, starter, isCrib) ==
  LET all == hand \o <<starter>>
      details == fifteens(all) \o pairs(all) \o runs(all)
                   \o flush(hand, starter, isCrib) \o nobs(hand, starter)
  IN [total |-> totalOf(details), details |-> details]

\* ── Pegging Scoring ──────────────────────────────────────
\* number of cards at the end of the stack with the last card's rank
pairCount(stack) ==
  LET lastRank == rank(stack[Len(stack)])
      n[i \in 0..Len(stack)] ==
        IF i = 0 THEN 0
        ELSE IF rank(stack[i]) = lastRank THEN 1 + n[i - 1] ELSE 0
  IN n[Len(stack)]

tail(stack, len) == SubSeq(stack, Len(stack) - len + 1, Len(stack))

\* pegRun as it would be if a run had to be played in ascending order
RECURSIVE pegRunAscending(_, _)
pegRunAscending(stack, len) ==
  IF len < 3 THEN 0
  ELSE IF \A i \in 2..len : order(tail(stack, len)[i]) = order(tail(stack, len)[i - 1]) + 1
  THEN len
  ELSE pegRunAscending(stack, len - 1)

\* the longest trailing window that is a run, 0 if none of length >= 3
RECURSIVE pegRun(_, _)
pegRun(stack, len) ==
  IF len < 3 THEN 0
  ELSE IF isRun(tail(stack, len)) THEN len
  ELSE pegRun(stack, len - 1)

\* scorePeg as it would be if the same-rank awards added up
scorePegAdditive(stack, count) ==
  IF Len(stack) = 0 THEN [points |-> 0, details |-> <<>>]
  ELSE LET pc == pairCount(stack)
           run == IF Len(stack) >= 3 /\ pc < 2 THEN pegRun(stack, Len(stack)) ELSE 0
           details ==
             (IF count = 15 THEN << [desc |-> "Fifteen", points |-> 2] >> ELSE <<>>)
             \o (IF count = 31 THEN << [desc |-> "Thirty-one", points |-> 2] >> ELSE <<>>)
             \o (IF pc >= 2 THEN << [desc |-> "Pair", points |-> 2] >> ELSE <<>>)
             \o (IF pc >= 3 THEN << [desc |-> "Three of a kind", points |-> 6] >> ELSE <<>>)
             \o (IF pc >= 4 THEN << [desc |-> "Four of a kind", points |-> 12] >> ELSE <<>>)
             \o (IF run > 0 THEN << [desc |-> runDesc(run), points |-> run] >> ELSE <<>>)
       IN [points |-> totalOf(details), details |-> details]

scorePeg(stack, count) ==
  IF Len(stack) = 0 THEN [points |-> 0, details |-> <<>>]
  ELSE LET pc == pairCount(stack)
           run == IF Len(stack) >= 3 /\ pc < 2 THEN pegRun(stack, Len(stack)) ELSE 0
           details ==
             (IF count = 15 THEN << [desc |-> "Fifteen", points |-> 2] >> ELSE <<>>)
             \o (IF count = 31 THEN << [desc |-> "Thirty-one", points |-> 2] >> ELSE <<>>)
             \o (IF pc = 2 THEN << [desc |-> "Pair", points |-> 2] >> ELSE <<>>)
             \o (IF pc = 3 THEN << [desc |-> "Three of a kind", points |-> 6] >> ELSE <<>>)
             \o (IF pc = 4 THEN << [desc |-> "Four of a kind", points |-> 12] >> ELSE <<>>)
             \o (IF run > 0 THEN << [desc |-> runDesc(run), points |-> run] >> ELSE <<>>)
       IN [points |-> totalOf(details), details |-> details]

\* ── AI Logic ─────────────────────────────────────────────
\* the nine sample starters of aiDiscard
testStarters ==
  << makeCard(0, 0), makeCard(1, 1), makeCard(3, 2),
     makeCard(4, 3), makeCard(6, 0), makeCard(8, 1),
     makeCard(9, 2), makeCard(10, 3), makeCard(12, 0) >>

\* the score aiDiscard gives to discarding hand[i], hand[j] (0-based i < j)
discardScore(hand, ij, isAiCrib) ==
  LET kept == RemoveAt(RemoveAt(hand, ij[2]), ij[1])
      d1 == hand[ij[1] + 1]
      d2 == hand[ij[2] + 1]
      sample(ts) == IF ts \in Range(hand) THEN 0 ELSE scoreHand(kept, ts, FALSE).total
      base == SumSeq([t \in 1..Len(testStarters) |-> sample(testStarters[t])])
      isPair == rank(d1) = rank(d2)
      isFifteen == value(d1) + value(d2) = 15
      hasFive == rank(d1) = FiveRank \/ rank(d2) = FiveRank
  IN IF isAiCrib
     THEN base + (IF isPair THEN 4 ELSE 0) + (IF isFifteen THEN 4 ELSE 0)
               + (IF hasFive THEN 2 ELSE 0)
     ELSE base - (IF isPair THEN 4 ELSE 0) - (IF isFifteen THEN 4 ELSE 0)
               - (IF hasFive THEN 3 ELSE 0)

\* AI picks 2 cards to discard: the first pair, in combinations order, of best score
aiDiscard(hand, isAiCrib) ==
  LET combos == combinations(<<0, 1, 2, 3, 4, 5>>, 2)
      sc == <<>> \o [k \in 1..Len(combos) |-> discardScore(hand, combos[k], isAiCrib)]
      best == CHOOSE k \in 1..Len(combos) :
                /\ \A m \in 1..Len(combos) : sc[m] <= sc[k]
                /\ \A m \in 1..(k - 1) : sc[m] < sc[k]
  IN combos[best]

\* Math.random() * 0.5 takes one of JitterLevels values j / (2 * JitterLevels);
\* candidate scores are compared multiplied by JitterScale
JitterLevels == 2

JitterScale == 2 * JitterLevels

\* the score aiPegPlay gives a playable card, before the random term
pegCandidateScore(card, stack, count) ==
  LET newCount == count + value(card)
      points == scorePeg(Append(stack, card), newCount).points
      remain == 31 - newCount
  IN points * 10
     + (IF newCount = 15 THEN 5 ELSE 0)
     + (IF newCount = 31 THEN 5 ELSE 0)
     + (IF newCount < 5 THEN 1 ELSE 0)
     - (IF remain = 5 \/ remain = 10 \/ remain = 15 THEN 2 ELSE 0)

\* aiPegPlay as it would be if it chose among all cards of the hand
aiPegPlayAnyCard(hand, stack, count, rnd) ==
  LET playable == hand
      score(i) == pegCandidateScore(playable[i], stack, count) * JitterScale + rnd[i]
      best[i \in 0..Len(playable)] ==
        IF i = 0 THEN [card |-> playable[1], score |-> -1 * JitterScale]
        ELSE IF score(i) > best[i - 1].score
             THEN [card |-> playable[i], score |-> score(i)]
             ELSE best[i - 1]
  IN IF Len(playable) = 0 THEN NoCard ELSE best[Len(playable)].card

\* AI picks a card to play during pegging; rnd[i] is the random level drawn for
\* the i-th playable card.  NoCard stands for null.
aiPegPlay(hand, stack, count, rnd) ==
  LET canPlay(c) == count + value(c) <= 31
      playable == Filter(hand, canPlay)
      score(i) == pegCandidateScore(playable[i], stack, count) * JitterScale + rnd[i]
      best[i \in 0..Len(playable)] ==
        IF i = 0 THEN [card |-> playable[1], score |-> -1 * JitterScale]
        ELSE IF score(i) > best[i - 1].score
             THEN [card |-> playable[i], score |-> score(i)]
             ELSE best[i - 1]
  IN IF Len(playable) = 0 THEN NoCard ELSE best[Len(playable)].card

\* ═══════════════════════════════════════════════════════════
\*  GAME STATE & UI
\* ═══════════════════════════════════════════════════════════
\* Game: the global game record.  dom: what of the page decides which events
\* can arrive and what the player is shown.  timers: the pending setTimeout
\* callbacks in scheduling order, each with the time left until it is due.
\* rounds: rounds dealt so far (bounds the exploration).
\* early: clicks on a card that arrived while a callback was pending (bounds
\* the exploration).
VARIABLES Game, dom, timers, rounds, early

vars == <<Game, dom, timers, rounds, early>>

Players == {"player", "ai"}

other(who) == IF who = "player" THEN "ai" ELSE "player"

\* setTimeout delays, in units of 100 ms
TurnDelay == 3

LeadDelay == 5

GoDelay == 6

AiThinkDelay == 7

ScoringDelay == 3

\* cards dealt to each player
DealSize == 6

\* the handlers below work on w = [G |-> Game, D |-> dom, T |-> timers,
\* ret |-> the value the last addScore returned]
setTimeout(w, cb, arg, delay) ==
  [w EXCEPT !.T = Append(@, [cb |-> cb, arg |-> arg, left |-> delay])]

showToast(w, who, points, desc) ==
  [w EXCEPT !.D.toasts = Append(@, [who |-> who, points |-> points, desc |-> desc])]

setButton(w, enabled) == [w EXCEPT !.D.btnDisabled = ~enabled]

\* the cards of #player-hand that get a playerPegPlay click listener
renderPlayerHand(w) ==
  [w EXCEPT !.D.playable =
     IF w.G.phase = "pegging" /\ w.G.pegTurn = "player"
     THEN {c \in Range(w.G.playerPegHand) : w.G.pegCount + value(c) <= 31}
     ELSE {}]

renderAll(w) == renderPlayerHand(w)

\* ── Score + win check ────────────────────────────────────
\* endGame as it would be if a loser at 91 were a skunk as well
endGameSkunkAt91(w) ==
  LET winner == IF w.G.playerScore >= WIN_SCORE THEN "player" ELSE "ai"
      loserScore == IF winner = "player" THEN w.G.aiScore ELSE w.G.playerScore
  IN [w EXCEPT !.G.gameOver = TRUE,
               !.G.phase = "gameover",
               !.D.gameoverMessage = [winner |-> winner, skunk |-> loserScore <= SkunkLine],
               !.D.gameoverHidden = FALSE]

endGame(w) ==
  LET winner == IF w.G.playerScore >= WIN_SCORE THEN "player" ELSE "ai"
      loserScore == IF winner = "player" THEN w.G.aiScore ELSE w.G.playerScore
  IN [w EXCEPT !.G.gameOver = TRUE,
               !.G.phase = "gameover",
               !.D.gameoverMessage = [winner |-> winner, skunk |-> loserScore < SkunkLine],
               !.D.gameoverHidden = FALSE]

Min(a, b) == IF a < b THEN a ELSE b

\* addScore as it would be if the win check compared with > instead of >=
addScoreLateWin(w, who, points) ==
  IF points <= 0 \/ w.G.gameOver THEN [w EXCEPT !.ret = FALSE]
  ELSE LET winCheck(s) ==
             IF s.G.playerScore > WIN_SCORE \/ s.G.aiScore > WIN_SCORE
             THEN [endGame(s) EXCEPT !.ret = TRUE]
             ELSE [s EXCEPT !.ret = FALSE]
       IN winCheck(IF who = "player"
                   THEN [w EXCEPT !.G.playerScore = Min(@ + points, WIN_SCORE)]
                   ELSE [w EXCEPT !.G.aiScore = Min(@ + points, WIN_SCORE)])

\* addScore as it would be without Math.min
addScoreUnclamped(w, who, points) ==
  IF points <= 0 \/ w.G.gameOver THEN [w EXCEPT !.ret = FALSE]
  ELSE LET winCheck(s) ==
             IF s.G.playerScore >= WIN_SCORE \/ s.G.aiScore >= WIN_SCORE
             THEN [endGame(s) EXCEPT !.ret = TRUE]
             ELSE [s EXCEPT !.ret = FALSE]
       IN winCheck(IF who = "player"
                   THEN [w EXCEPT !.G.playerScore = @ + points]
                   ELSE [w EXCEPT !.G.aiScore = @ + points])

addScore(w, who, points) ==
  IF points <= 0 \/ w.G.gameOver THEN [w EXCEPT !.ret = FALSE]
  ELSE LET winCheck(s) ==
             IF s.G.playerScore >= WIN_SCORE \/ s.G.aiScore >= WIN_SCORE
             THEN [endGame(s) EXCEPT !.ret = TRUE]
             ELSE [s EXCEPT !.ret = FALSE]
       IN winCheck(IF who = "player"
                   THEN [w EXCEPT !.G.playerScore = Min(@ + points, WIN_SCORE)]
                   ELSE [w EXCEPT !.G.aiScore = Min(@ + points, WIN_SCORE)])

\* ═══════════════════════════════════════════════════════════
\*  GAME FLOW
\* ═══════════════════════════════════════════════════════════
\* shuffled: the deck shuffle(makeDeck()) returned
startNewRound(w, shuffled) ==
  IF w.G.gameOver THEN w
  ELSE setButton(renderAll(
         [w EXCEPT !.G.selectedCards = {},
                   !.G.crib = <<>>,
                   !.G.starter = NoCard,
                   !.G.pegStack = <<>>,
                   !.G.pegCount = 0,
                   !.G.lastPegPlayer = "null",
                   !.G.playerSaidGo = FALSE,
                   !.G.aiSaidGo = FALSE,
                   !.G.scoringQueue = <<>>,
                   !.G.pegTurn = "null",
                   !.G.playerHand = SubSeq(shuffled, 1, DealSize),
                   !.G.aiHand = SubSeq(shuffled, DealSize + 1, 2 * DealSize),
                   !.G.deck = SubSeq(shuffled, 2 * DealSize + 1, Len(shuffled)),
                   !.G.phase = "discard"]), FALSE)

\* firstDealer: the outcome of Math.random() < 0.5
newGame(w, firstDealer, shuffled) ==
  startNewRound(
    [w EXCEPT !.G.playerScore = 0,
              !.G.aiScore = 0,
              !.G.gameOver = FALSE,
              !.G.dealer = firstDealer,
              !.D.gameoverHidden = TRUE,
              !.D.scoringHidden = TRUE],
    shuffled)

\* a shuffle outcome: the given cards on top, the rest in makeDeck order
shuffleWithTop(top) ==
  LET isRest(c) == c \notin Range(top)
  IN top \o Filter(makeDeck, isRest)

\* the shuffle outcomes explored: six cards for the player, six for the AI,
\* then the top of the remaining deck
Shuffles ==
  { shuffleWithTop(<< 36, 29, 50, 25, 11, 12,   49, 41, 46, 45, 0, 30,   28 >>),
    shuffleWithTop(<< 22, 15, 46, 7, 6, 44,   8, 33, 2, 40, 43, 9,   23 >>) }

\* aiDiscard for the hands the explored shuffles deal to the AI, evaluated once
aiDiscardOfDeals ==
  [h \in {SubSeq(sh, DealSize + 1, 2 * DealSize) : sh \in Shuffles}, own \in BOOLEAN
     |-> aiDiscard(h, own)] @@ <<>>

\* ── Discard phase ────────────────────────────────────────
toggleSelectCard(w, idx) ==
  LET toggled(s) == setButton(renderPlayerHand(s), Cardinality(s.G.selectedCards) = 2)
  IN IF w.G.phase # "discard" THEN w
     ELSE IF idx \notin w.G.selectedCards /\ Cardinality(w.G.selectedCards) >= 2 THEN w
     ELSE toggled([w EXCEPT !.G.selectedCards =
                     IF idx \in @ THEN @ \ {idx} ELSE @ \cup {idx}])

\* remove the 0-based indices lo < hi from hand, highest first
discardFrom(hand, lo, hi) == RemoveAt(RemoveAt(hand, hi), lo)

\* the highest of a set of indices
MaxOf(S) == CHOOSE i \in S : \A j \in S : j <= i

\* the lowest of a set of indices
MinOf(S) == CHOOSE i \in S : \A j \in S : i <= j

\* confirmDiscard as it would be if the discards went back under the deck as well
confirmDiscardToDeck(w) ==
  LET cut(s) == [setButton(renderAll(s), TRUE) EXCEPT !.G.phase = "cut"]
      discarded(hi, lo, ai) ==
        cut([w EXCEPT
               !.G.crib = @ \o << w.G.playerHand[hi + 1], w.G.playerHand[lo + 1],
                                  w.G.aiHand[ai[2] + 1], w.G.aiHand[ai[1] + 1] >>,
               !.G.deck = @ \o << w.G.playerHand[hi + 1], w.G.playerHand[lo + 1],
                                  w.G.aiHand[ai[2] + 1], w.G.aiHand[ai[1] + 1] >>,
               !.G.playerHand = discardFrom(@, lo, hi),
               !.G.aiHand = discardFrom(@, ai[1], ai[2]),
               !.G.selectedCards = {},
               !.G.savedPlayerHand = discardFrom(w.G.playerHand, lo, hi),
               !.G.savedAiHand = discardFrom(w.G.aiHand, ai[1], ai[2])])
  IN IF Cardinality(w.G.selectedCards) # 2 THEN w
     ELSE discarded(MaxOf(w.G.selectedCards), MinOf(w.G.selectedCards),
                    aiDiscardOfDeals[w.G.aiHand, w.G.dealer = "ai"])

confirmDiscard(w) ==
  LET cut(s) == [setButton(renderAll(s), TRUE) EXCEPT !.G.phase = "cut"]
      discarded(hi, lo, ai) ==
        cut([w EXCEPT
               !.G.crib = @ \o << w.G.playerHand[hi + 1], w.G.playerHand[lo + 1],
                                  w.G.aiHand[ai[2] + 1], w.G.aiHand[ai[1] + 1] >>,
               !.G.playerHand = discardFrom(@, lo, hi),
               !.G.aiHand = discardFrom(@, ai[1], ai[2]),
               !.G.selectedCards = {},
               !.G.savedPlayerHand = discardFrom(w.G.playerHand, lo, hi),
               !.G.savedAiHand = discardFrom(w.G.aiHand, ai[1], ai[2])])
  IN IF Cardinality(w.G.selectedCards) # 2 THEN w
     ELSE discarded(MaxOf(w.G.selectedCards), MinOf(w.G.selectedCards),
                    aiDiscardOfDeals[w.G.aiHand, w.G.dealer = "ai"])

\* ═══════════════════════════════════════════════════════════
\*  PEGGING
\* ═══════════════════════════════════════════════════════════
canPlay(hand, count) == \E i \in 1..Len(hand) : count + value(hand[i]) <= 31

\* resetSubRound as it would be if it left Game.pegCount
resetSubRoundKeepsCount(w) ==
  [w EXCEPT !.G.pegStack = <<>>,
            !.G.playerSaidGo = FALSE,
            !.G.aiSaidGo = FALSE,
            !.G.lastPegPlayer = "null"]

\* resetSubRound as it would be if it left the go flags
resetSubRoundKeepsGo(w) ==
  [w EXCEPT !.G.pegStack = <<>>,
            !.G.pegCount = 0,
            !.G.lastPegPlayer = "null"]

resetSubRound(w) ==
  [w EXCEPT !.G.pegStack = <<>>,
            !.G.pegCount = 0,
            !.G.playerSaidGo = FALSE,
            !.G.aiSaidGo = FALSE,
            !.G.lastPegPlayer = "null"]

\* endSubRound as it would be without the go point
endSubRoundNoGo(w) ==
  LET lead(r) ==
        setTimeout(r,
          IF Len(r.G.playerPegHand) = 0 /\ Len(r.G.aiPegHand) = 0
          THEN "startScoring" ELSE "startPegTurn",
          IF Len(r.G.playerPegHand) = 0 /\ Len(r.G.aiPegHand) = 0 THEN "null"
          ELSE IF r.G.lastPegPlayer # "player" /\ Len(r.G.playerPegHand) = 0 THEN "ai"
          ELSE IF r.G.lastPegPlayer = "player" /\ Len(r.G.aiPegHand) = 0 THEN "player"
          ELSE IF r.G.lastPegPlayer = "player" THEN "ai" ELSE "player",
          LeadDelay)
  IN IF w.G.gameOver THEN w
     ELSE lead(resetSubRound(w))

\* End a sub-round: award go point, reset count.
endSubRound(w) ==
  LET lead(r) ==
        setTimeout(r,
          IF Len(r.G.playerPegHand) = 0 /\ Len(r.G.aiPegHand) = 0
          THEN "startScoring" ELSE "startPegTurn",
          IF Len(r.G.playerPegHand) = 0 /\ Len(r.G.aiPegHand) = 0 THEN "null"
          ELSE IF r.G.lastPegPlayer # "player" /\ Len(r.G.playerPegHand) = 0 THEN "ai"
          ELSE IF r.G.lastPegPlayer = "player" /\ Len(r.G.aiPegHand) = 0 THEN "player"
          ELSE IF r.G.lastPegPlayer = "player" THEN "ai" ELSE "player",
          LeadDelay)
      scored(a) == IF a.ret THEN a ELSE lead(resetSubRound(a))
  IN IF w.G.gameOver THEN w
     ELSE scored(IF w.G.lastPegPlayer # "null" /\ w.G.pegCount < 31
                 THEN addScore(showToast(w, w.G.lastPegPlayer, 1, "Go"),
                               w.G.lastPegPlayer, 1)
                 ELSE [w EXCEPT !.ret = FALSE])

\* doPlayerPegTurn as it would be if a player without a playable card were
\* waited for
doPlayerPegTurnWaits(w) ==
  IF ~canPlay(w.G.playerPegHand, w.G.pegCount)
  THEN [w EXCEPT !.G.playerSaidGo = TRUE]
  ELSE renderPlayerHand(setButton(w, FALSE))

doPlayerPegTurn(w) ==
  LET saidGo(s) ==
        IF s.G.aiSaidGo \/ ~canPlay(s.G.aiPegHand, s.G.pegCount)
        THEN endSubRound(s)
        ELSE setTimeout(s, "startPegTurn", "ai", GoDelay)
  IN IF ~canPlay(w.G.playerPegHand, w.G.pegCount)
     THEN saidGo([w EXCEPT !.G.playerSaidGo = TRUE])
     ELSE renderPlayerHand(setButton(w, FALSE))

startPegTurn(w, who) ==
  IF w.G.gameOver THEN w
  ELSE IF who = "ai"
  THEN setTimeout(renderPlayerHand(setButton([w EXCEPT !.G.pegTurn = who], FALSE)),
                  "doAiPegTurn", "null", AiThinkDelay)
  ELSE doPlayerPegTurn([w EXCEPT !.G.pegTurn = who])

startPegging(w) ==
  startPegTurn([w EXCEPT !.G.phase = "pegging",
                         !.G.playerPegHand = w.G.playerHand,
                         !.G.aiPegHand = w.G.aiHand,
                         !.G.pegStack = <<>>,
                         !.G.pegCount = 0,
                         !.G.lastPegPlayer = "null",
                         !.G.playerSaidGo = FALSE,
                         !.G.aiSaidGo = FALSE],
               IF w.G.dealer = "player" THEN "ai" ELSE "player")

\* cutStarter as it would be if the starter were read off the deck and left
\* in it
cutStarterKeepsDeck(w, idx) ==
  LET scored(a) == IF a.ret THEN a ELSE startPegging(a)
      cut(s) == scored(IF rank(s.G.starter) = JackRank
                       THEN addScore(showToast(s, s.G.dealer, 2, "His Heels"),
                                     s.G.dealer, 2)
                       ELSE [s EXCEPT !.ret = FALSE])
  IN cut([w EXCEPT !.G.starter = w.G.deck[idx + 1]])

\* cutStarter as it would be if His Heels went to the non-dealer
cutStarterToNonDealer(w, idx) ==
  LET scored(a) == IF a.ret THEN a ELSE startPegging(a)
      cut(s) == scored(IF rank(s.G.starter) = JackRank
                       THEN addScore(showToast(s, other(s.G.dealer), 2, "His Heels"),
                                     other(s.G.dealer), 2)
                       ELSE [s EXCEPT !.ret = FALSE])
  IN cut([w EXCEPT !.G.starter = w.G.deck[idx + 1],
                   !.G.deck = RemoveAt(@, idx)])

\* ── Cut starter ──────────────────────────────────────────
\* idx: Math.floor(Math.random() * Game.deck.length)
cutStarter(w, idx) ==
  LET scored(a) == IF a.ret THEN a ELSE startPegging(a)
      cut(s) == scored(IF rank(s.G.starter) = JackRank
                       THEN addScore(showToast(s, s.G.dealer, 2, "His Heels"),
                                     s.G.dealer, 2)
                       ELSE [s EXCEPT !.ret = FALSE])
  IN cut([w EXCEPT !.G.starter = w.G.deck[idx + 1],
                   !.G.deck = RemoveAt(@, idx)])

\* afterCardPlayed as it would be without the branch for a count of 31
afterCardPlayedNo31(w) ==
  LET bothEmpty == Len(w.G.playerPegHand) = 0 /\ Len(w.G.aiPegHand) = 0
      playerCanPlay == canPlay(w.G.playerPegHand, w.G.pegCount)
      aiCanPlay == canPlay(w.G.aiPegHand, w.G.pegCount)
      next == IF w.G.lastPegPlayer = "player" THEN "ai" ELSE "player"
      lastCard(a) ==
        IF a.ret THEN a
        ELSE setTimeout(resetSubRound(a), "startScoring", "null", LeadDelay)
  IN IF w.G.gameOver THEN w
     ELSE IF bothEmpty
     THEN lastCard(IF w.G.lastPegPlayer # "null"
                   THEN addScore(showToast(w, w.G.lastPegPlayer, 1, "Last card"),
                                 w.G.lastPegPlayer, 1)
                   ELSE [w EXCEPT !.ret = FALSE])
     ELSE IF ~playerCanPlay /\ ~aiCanPlay THEN endSubRound(w)
     ELSE IF next = "player" /\ ~playerCanPlay
     THEN setTimeout([w EXCEPT !.G.playerSaidGo = TRUE], "startPegTurn", "ai", GoDelay)
     ELSE IF next = "ai" /\ ~aiCanPlay
     THEN setTimeout(showToast([w EXCEPT !.G.aiSaidGo = TRUE], "ai", 0, "AI says Go"),
                     "startPegTurn", "player", GoDelay)
     ELSE setTimeout(w, "startPegTurn", next, TurnDelay)

\* After a card is played, decide what happens next.
afterCardPlayed(w) ==
  LET bothEmpty == Len(w.G.playerPegHand) = 0 /\ Len(w.G.aiPegHand) = 0
      playerCanPlay == canPlay(w.G.playerPegHand, w.G.pegCount)
      aiCanPlay == canPlay(w.G.aiPegHand, w.G.pegCount)
      next == IF w.G.lastPegPlayer = "player" THEN "ai" ELSE "player"
      thirtyOne(r) ==
        IF bothEmpty THEN setTimeout(r, "startScoring", "null", LeadDelay)
        ELSE setTimeout(r, "startPegTurn",
                        IF r.G.lastPegPlayer = "player" THEN "ai" ELSE "player",
                        LeadDelay)
      lastCard(a) ==
        IF a.ret THEN a
        ELSE setTimeout(resetSubRound(a), "startScoring", "null", LeadDelay)
  IN IF w.G.gameOver THEN w
     ELSE IF w.G.pegCount = 31 THEN thirtyOne(resetSubRound(w))
     ELSE IF bothEmpty
     THEN lastCard(IF w.G.lastPegPlayer # "null"
                   THEN addScore(showToast(w, w.G.lastPegPlayer, 1, "Last card"),
                                 w.G.lastPegPlayer, 1)
                   ELSE [w EXCEPT !.ret = FALSE])
     ELSE IF ~playerCanPlay /\ ~aiCanPlay THEN endSubRound(w)
     ELSE IF next = "player" /\ ~playerCanPlay
     THEN setTimeout([w EXCEPT !.G.playerSaidGo = TRUE], "startPegTurn", "ai", GoDelay)
     ELSE IF next = "ai" /\ ~aiCanPlay
     THEN setTimeout(showToast([w EXCEPT !.G.aiSaidGo = TRUE], "ai", 0, "AI says Go"),
                     "startPegTurn", "player", GoDelay)
     ELSE setTimeout(w, "startPegTurn", next, TurnDelay)

\* what a peg play does once the card is on the stack: scorePeg's points are
\* awarded and afterCardPlayed decides the rest
scorePlay(w, who) ==
  LET awarded(a) == IF a.ret THEN a ELSE afterCardPlayed(a)
      scored(points) ==
        awarded(IF points > 0
                THEN addScore(showToast(w, who, points, "Peg"), who, points)
                ELSE [w EXCEPT !.ret = FALSE])
  IN scored(scorePeg(w.G.pegStack, w.G.pegCount).points)

\* playerPegPlay as it would be without the check of the count against 31
playerPegPlayNoLimit(w, card) ==
  IF w.G.phase # "pegging" \/ w.G.pegTurn # "player" THEN w
  ELSE IF findIndex(w.G.playerPegHand, card) = -1 THEN w
  ELSE scorePlay(
         renderPlayerHand(
           [w EXCEPT !.G.playerPegHand = RemoveAt(@, findIndex(@, card)),
                     !.G.pegStack = Append(@, card),
                     !.G.pegCount = @ + value(card),
                     !.G.lastPegPlayer = "player",
                     !.G.playerSaidGo = FALSE]),
         "player")

playerPegPlay(w, card) ==
  IF w.G.phase # "pegging" \/ w.G.pegTurn # "player" THEN w
  ELSE IF w.G.pegCount + value(card) > 31 THEN w
  ELSE IF findIndex(w.G.playerPegHand, card) = -1 THEN w
  ELSE scorePlay(
         renderPlayerHand(
           [w EXCEPT !.G.playerPegHand = RemoveAt(@, findIndex(@, card)),
                     !.G.pegStack = Append(@, card),
                     !.G.pegCount = @ + value(card),
                     !.G.lastPegPlayer = "player",
                     !.G.playerSaidGo = FALSE]),
         "player")

\* rnd: the random levels aiPegPlay draws, one per card of the hand
doAiPegTurn(w, rnd) ==
  LET saidGo(s) ==
        IF s.G.playerSaidGo \/ ~canPlay(s.G.playerPegHand, s.G.pegCount)
        THEN endSubRound(s)
        ELSE setTimeout(s, "startPegTurn", "player", GoDelay)
      played(card) ==
        scorePlay([w EXCEPT !.G.aiPegHand = RemoveAt(@, findIndex(@, card)),
                            !.G.pegStack = Append(@, card),
                            !.G.pegCount = @ + value(card),
                            !.G.lastPegPlayer = "ai",
                            !.G.aiSaidGo = FALSE],
                  "ai")
  IN IF w.G.phase # "pegging" \/ w.G.gameOver THEN w
     ELSE IF ~canPlay(w.G.aiPegHand, w.G.pegCount)
     THEN saidGo(showToast([w EXCEPT !.G.aiSaidGo = TRUE], "ai", 0, "AI says Go"))
     ELSE played(aiPegPlay(w.G.aiPegHand, w.G.pegStack, w.G.pegCount, rnd))

\* ═══════════════════════════════════════════════════════════
\*  HAND SCORING PHASE
\* ═══════════════════════════════════════════════════════════
\* shuffled: the deck the next round's shuffle returns, if a round is started
showNextScoring(w, shuffled) ==
  LET shown(item, s) ==
        IF s.G.starter = NoCard
        THEN s   \* scoreHand reads starter.value of null: TypeError, the callback ends here
        ELSE [s EXCEPT !.D.scoringHidden = FALSE,
                       !.D.onclick =
                          [who |-> item.who, hand |-> item.hand, isCrib |-> item.isCrib,
                           total |-> scoreHand(item.hand, s.G.starter, item.isCrib).total]]
  IN IF w.G.gameOver THEN w
     ELSE IF Len(w.G.scoringQueue) = 0
     THEN startNewRound([w EXCEPT !.G.dealer = other(@)], shuffled)
     ELSE shown(Head(w.G.scoringQueue), [w EXCEPT !.G.scoringQueue = Tail(@)])

\* startScoring as it would be if it queued the peg hands, which pegging consumes
startScoringFromPegHands(w, shuffled) ==
  LET nonDealer == other(w.G.dealer)
      dealerWho == w.G.dealer
      handOf(who) == IF who = "player" THEN w.G.playerPegHand ELSE w.G.aiPegHand
  IN IF w.G.gameOver THEN w
     ELSE showNextScoring(
            [w EXCEPT !.G.phase = "scoring",
                      !.G.scoringQueue =
                        << [who |-> nonDealer, hand |-> handOf(nonDealer), isCrib |-> FALSE],
                           [who |-> dealerWho, hand |-> handOf(dealerWho), isCrib |-> FALSE],
                           [who |-> dealerWho, hand |-> w.G.crib, isCrib |-> TRUE] >>],
            shuffled)

startScoring(w, shuffled) ==
  LET nonDealer == other(w.G.dealer)
      dealerWho == w.G.dealer
      handOf(who) == IF who = "player" THEN w.G.savedPlayerHand ELSE w.G.savedAiHand
  IN IF w.G.gameOver THEN w
     ELSE showNextScoring(
            [w EXCEPT !.G.phase = "scoring",
                      !.G.scoringQueue =
                        << [who |-> nonDealer, hand |-> handOf(nonDealer), isCrib |-> FALSE],
                           [who |-> dealerWho, hand |-> handOf(dealerWho), isCrib |-> FALSE],
                           [who |-> dealerWho, hand |-> w.G.crib, isCrib |-> TRUE] >>],
            shuffled)

\* dom.btnScoringOk.onclick, as set by the last showNextScoring
scoringOk(w) ==
  LET scored(a) ==
        IF a.ret THEN a ELSE setTimeout(a, "showNextScoring", "null", ScoringDelay)
  IN scored(addScore([w EXCEPT !.D.scoringHidden = TRUE],
                     w.D.onclick.who, w.D.onclick.total))

\* ═══════════════════════════════════════════════════════════
\*  EVENTS
\* ═══════════════════════════════════════════════════════════
\* ── bounds of the exploration ────────────────────────────
\* rounds dealt that are explored
MaxRounds == 2

\* card clicks explored that arrive while a callback is pending
MaxEarly == 1

\* the player selects discards among the hand indices 0..MaxSelect
MaxSelect == 1

\* the cut draws one of the deck indices 0..MaxCut
MaxCut == 0

\* the player clicks one of the MaxPick leftmost clickable cards of the hand
MaxPick == 1

\* the scores (player, AI) of the matches in progress that are explored
StartScores == { <<0, 0>>, <<120, 120>> }

\* sortHand's order: by rank order, then by suit
before(a, b) == order(a) < order(b) \/ (order(a) = order(b) /\ suit(a) < suit(b))

\* the n leftmost cards of a rendered set of cards
leftmost(cards, n) == {c \in cards : Cardinality({b \in cards : before(b, c)}) < n}

\* the world the handlers work on, from and to the variables
World == [G |-> Game, D |-> [dom EXCEPT !.toasts = <<>>], T |-> timers, ret |-> FALSE]

Becomes(w) ==
  /\ Game' = w.G
  /\ dom' = w.D
  /\ timers' = w.T

\* the Game object, the page and the timer queue as the script leaves them
Game0 ==
  [ playerScore |-> 0, aiScore |-> 0, dealer |-> "ai", phase |-> "idle",
    deck |-> <<>>, playerHand |-> <<>>, aiHand |-> <<>>, crib |-> <<>>,
    starter |-> NoCard, savedPlayerHand |-> <<>>, savedAiHand |-> <<>>,
    pegStack |-> <<>>, pegCount |-> 0, playerPegHand |-> <<>>, aiPegHand |-> <<>>,
    lastPegPlayer |-> "null", playerSaidGo |-> FALSE, aiSaidGo |-> FALSE,
    scoringQueue |-> <<>>, selectedCards |-> {}, gameOver |-> FALSE,
    pegTurn |-> "null" ]

dom0 ==
  [ btnDisabled |-> FALSE, scoringHidden |-> TRUE, gameoverHidden |-> TRUE,
    playable |-> {}, toasts |-> <<>>,
    onclick |-> [who |-> "null", hand |-> <<>>, isCrib |-> FALSE, total |-> 0],
    gameoverMessage |-> [winner |-> "null", skunk |-> FALSE] ]

World0 == [G |-> Game0, D |-> dom0, T |-> <<>>, ret |-> FALSE]

\* the page as loaded
InitIdle ==
  /\ Game = Game0
  /\ dom = dom0
  /\ timers = <<>>
  /\ rounds = 0
  /\ early = 0

\* a match in progress, a round just dealt
InitMatch ==
  \E sc \in StartScores, d \in Players, sh \in Shuffles :
    LET w == startNewRound([World0 EXCEPT !.G.playerScore = sc[1],
                                          !.G.aiScore = sc[2],
                                          !.G.dealer = d], sh)
    IN /\ Game = w.G
       /\ dom = w.D
       /\ timers = w.T
       /\ rounds = 1
       /\ early = 0

Init == InitIdle \/ InitMatch

\* the timer that fires next: the first scheduled among those due
due == CHOOSE i \in 1..Len(timers) :
         /\ timers[i].left = 0
         /\ \A j \in 1..(i - 1) : timers[j].left # 0

isDue(cb) == (\E i \in 1..Len(timers) : timers[i].left = 0) /\ timers[due].cb = cb

\* the world with the due timer taken off the queue
Fired == [World EXCEPT !.T = RemoveAt(@, due - 1)]

\* 100 ms pass: only when no timer is due
Tick ==
  /\ timers # <<>>
  /\ \A i \in 1..Len(timers) : timers[i].left > 0
  /\ timers' = [i \in 1..Len(timers) |-> [timers[i] EXCEPT !.left = @ - 1]]
  /\ dom' = [dom EXCEPT !.toasts = <<>>]
  /\ UNCHANGED <<Game, rounds, early>>

\* btnAction click in phase idle
ClickStartGame ==
  /\ ~dom.btnDisabled
  /\ Game.phase = "idle"
  /\ rounds < MaxRounds
  /\ \E d \in Players, sh \in Shuffles : Becomes(newGame(World, d, sh))
  /\ rounds' = rounds + 1
  /\ UNCHANGED early

\* btnNewGame click on the game-over overlay
ClickNewGame ==
  /\ ~dom.gameoverHidden
  /\ rounds < MaxRounds
  /\ \E d \in Players, sh \in Shuffles : Becomes(newGame(World, d, sh))
  /\ rounds' = rounds + 1
  /\ UNCHANGED early

\* click on a card of the hand during the discard phase
ClickSelectCard ==
  /\ Game.phase = "discard"
  /\ \E idx \in 0..MaxSelect : Becomes(toggleSelectCard(World, idx))
  /\ UNCHANGED <<rounds, early>>

\* btnAction click in phase discard
ClickConfirmDiscard ==
  /\ ~dom.btnDisabled
  /\ Game.phase = "discard"
  /\ Becomes(confirmDiscard(World))
  /\ UNCHANGED <<rounds, early>>

\* btnAction click in phase cut
ClickCut ==
  /\ ~dom.btnDisabled
  /\ Game.phase = "cut"
  /\ \E idx \in 0..MaxCut : Becomes(cutStarter(World, idx))
  /\ UNCHANGED <<rounds, early>>

\* click on a card of #player-hand that carries a playerPegPlay listener
ClickPegCard ==
  /\ timers # <<>> => early < MaxEarly
  /\ \E card \in leftmost(dom.playable, MaxPick) : Becomes(playerPegPlay(World, card))
  /\ early' = IF timers # <<>> THEN early + 1 ELSE early
  /\ UNCHANGED rounds

\* btnScoringOk click on the scoring overlay
ClickScoringOk ==
  /\ ~dom.scoringHidden
  /\ Becomes(scoringOk(World))
  /\ UNCHANGED <<rounds, early>>

FireStartPegTurn ==
  /\ isDue("startPegTurn")
  /\ Becomes(startPegTurn(Fired, timers[due].arg))
  /\ UNCHANGED <<rounds, early>>

FireDoAiPegTurn ==
  /\ isDue("doAiPegTurn")
  /\ \E rnd \in [1..Len(Game.aiPegHand) -> 0..(JitterLevels - 1)] :
       Becomes(doAiPegTurn(Fired, rnd))
  /\ UNCHANGED <<rounds, early>>

\* the round that showNextScoring starts when the queue is empty
startsRound == ~Game.gameOver /\ Len(Game.scoringQueue) = 0

FireStartScoring ==
  /\ isDue("startScoring")
  /\ \E sh \in Shuffles : Becomes(startScoring(Fired, sh))
  /\ UNCHANGED <<rounds, early>>

FireShowNextScoring ==
  /\ isDue("showNextScoring")
  /\ startsRound => rounds < MaxRounds
  /\ \E sh \in Shuffles : Becomes(showNextScoring(Fired, sh))
  /\ rounds' = IF startsRound THEN rounds + 1 ELSE rounds
  /\ UNCHANGED early

Next ==
  \/ Tick
  \/ ClickStartGame
  \/ ClickNewGame
  \/ ClickSelectCard
  \/ ClickConfirmDiscard
  \/ ClickCut
  \/ ClickPegCard
  \/ ClickScoringOk
  \/ FireStartPegTurn
  \/ FireDoAiPegTurn
  \/ FireStartScoring
  \/ FireShowNextScoring

Spec == Init /\ [][Next]_vars

\* ═══════════════════════════════════════════════════════════
\*  WHAT A STEP SHOWS
\* ═══════════════════════════════════════════════════════════
score(g, who) == IF who = "player" THEN g.playerScore ELSE g.aiScore

pegHand(g, who) == IF who = "player" THEN g.playerPegHand ELSE g.aiPegHand

\* the step is a call of newGame
NewGameStep ==
  (Game.phase = "idle" \/ Game.gameOver) /\ Game'.phase = "discard" /\ ~Game'.gameOver

\* the step is a peg play of who: a card left who's peg hand
Played(who) ==
  Game.phase = "pegging" /\ Len(pegHand(Game', who)) = Len(pegHand(Game, who)) - 1

PlayedCard(who) ==
  CHOOSE c \in Range(pegHand(Game, who)) : c \notin Range(pegHand(Game', who))

\* count and stack once the played card is on the stack
CountAfter(who) == Game.pegCount + value(PlayedCard(who))

StackAfter(who) == Append(Game.pegStack, PlayedCard(who))

PegPoints(who) == scorePeg(StackAfter(who), CountAfter(who)).points

\* after the play neither player holds a card that fits under 31
NobodyCanPlay(who) ==
  /\ ~canPlay(Game'.playerPegHand, CountAfter(who))
  /\ ~canPlay(Game'.aiPegHand, CountAfter(who))

IsGoAward(t) == t.desc \in {"Go", "Last card"}

\* the go and last-card awards the step announced
GoAwards == SelectSeq(dom'.toasts, IsGoAward)

\* the step scheduled startPegTurn(who) as its hand-off
HandsOffTo(who) ==
  /\ Len(timers') > 0
  /\ timers'[Len(timers')].cb = "startPegTurn"
  /\ timers'[Len(timers')].arg = who

\* the largest award explored for addScore
MaxAward == 29

\* ═══════════════════════════════════════════════════════════
\*  PROPERTIES
\* ═══════════════════════════════════════════════════════════
\* C1: a step that leaves a score at 121 leaves the match over (gameOver set,
\* phase gameover); while the match is over every step that is not newGame
\* leaves the whole game record as it was and announces no award.
C1_OverAt121 ==
  [][ /\ (Game'.playerScore >= WIN_SCORE \/ Game'.aiScore >= WIN_SCORE)
           => (Game'.gameOver /\ Game'.phase = "gameover")
      /\ (Game.gameOver /\ ~NewGameStep) => (Game' = Game /\ dom'.toasts = <<>>)
    ]_vars

\* C1 witness: the match is over at 121 and the player's cards still carry
\* click listeners
C1_Witness ==
  /\ Game.gameOver
  /\ Game.phase = "gameover"
  /\ (Game.playerScore = WIN_SCORE \/ Game.aiScore = WIN_SCORE)
  /\ dom.playable # {}

\* C2: both scores stay in 0..121; a score goes down only in a newGame step;
\* in a match that is not over addScore(who, n) leaves who's score at
\* min(old + n, 121) and the other score as it was.
C2_Scores ==
  [][ /\ Game'.playerScore \in 0..WIN_SCORE
      /\ Game'.aiScore \in 0..WIN_SCORE
      /\ ~NewGameStep => /\ Game'.playerScore >= Game.playerScore
                         /\ Game'.aiScore >= Game.aiScore
      /\ ~Game.gameOver =>
           \A who \in Players, n \in 0..MaxAward :
             /\ score(addScore(World, who, n).G, who) = Min(score(Game, who) + n, WIN_SCORE)
             /\ score(addScore(World, who, n).G, other(who)) = score(Game, other(who))
    ]_vars

\* C2 witness: an award of 2 or more to a player who stood at 120 was cut
\* at 121
C2_Witness ==
  /\ Game.aiScore = WIN_SCORE
  /\ Game.playerScore = 120
  /\ \E i \in 1..Len(dom.toasts) : dom.toasts[i].who = "ai" /\ dom.toasts[i].points >= 2

\* C3: the count is the sum of the values of the cards of the peg stack and
\* lies in 0..31 (so an empty stack always comes with a count of 0).
C3_Count ==
  /\ Game.pegCount = SumSeq([i \in 1..Len(Game.pegStack) |-> value(Game.pegStack[i])])
  /\ Game.pegCount \in 0..31

\* C3 witness: in the middle of the pegging the stack and the count were reset
\* after cards had been played
C3_Witness ==
  /\ Game.phase = "pegging"
  /\ Game.pegStack = <<>>
  /\ Game.pegCount = 0
  /\ Len(Game.playerPegHand) + Len(Game.aiPegHand) \in 1..5

\* C4: the step that enters the pegging phase gives the turn to the
\* non-dealer, and the first card of the pegging phase is played by the
\* non-dealer.
C4_NonDealerFirst ==
  [][ /\ (Game.phase # "pegging" /\ Game'.phase = "pegging")
           => Game'.pegTurn = other(Game'.dealer)
      /\ \A who \in Players :
           (/\ Played(who)
            /\ Len(Game.playerPegHand) = Len(Game.playerHand)
            /\ Len(Game.aiPegHand) = Len(Game.aiHand))
           => who = other(Game.dealer)
    ]_vars

\* C5: a player who played the last card of the stack plays the next card
\* only if the opponent holds no card that fits under 31.
C5_Alternate ==
  [][ \A who \in Players :
        (/\ Played(who)
         /\ Game.pegStack # <<>>
         /\ Game.lastPegPlayer = who)
        => ~canPlay(pegHand(Game, other(who)), Game.pegCount)
    ]_vars

\* C6: when a play leaves the count below 31 with no card that fits in either
\* hand (and its own points do not end the match), the step announces exactly
\* one go or last-card award, of 1 point to the player of the card, whose
\* score grows by the card's points plus 1; the other score stays.  No other
\* step announces a go or last-card award.
C6_GoPoint ==
  [][ /\ \A who \in Players :
           (/\ Played(who)
            /\ CountAfter(who) < 31
            /\ NobodyCanPlay(who)
            /\ score(Game, who) + PegPoints(who) < WIN_SCORE)
           => /\ Len(GoAwards) = 1
              /\ GoAwards[1].who = who
              /\ GoAwards[1].points = 1
              /\ score(Game', who) = score(Game, who) + PegPoints(who) + 1
              /\ score(Game', other(who)) = score(Game, other(who))
      /\ Len(GoAwards) > 0 =>
           /\ Len(GoAwards) = 1
           /\ Played(GoAwards[1].who)
           /\ CountAfter(GoAwards[1].who) < 31
           /\ NobodyCanPlay(GoAwards[1].who)
    ]_vars

\* C6 witness: a go or last-card point has just been announced for the AI
\* and the stack was reset
C6_Witness ==
  /\ \E i \in 1..Len(dom.toasts) : IsGoAward(dom.toasts[i]) /\ dom.toasts[i].who = "ai"
  /\ Game.pegStack = <<>>
  /\ ~Game.gameOver

C8_LeadAfter31 ==
  [][ \A who \in Players :
        (/\ Played(who)
         /\ CountAfter(who) = 31
         /\ ~Game'.gameOver
         /\ Len(Game'.playerPegHand) + Len(Game'.aiPegHand) > 0)
        => HandsOffTo(other(who))
    ]_vars

\* C9: a play that ends the sub-round by go (count below 31, no card that
\* fits in either hand, a card still held) hands the lead to the opponent of
\* its player, or to its player when the opponent holds no card.
C9_LeadAfterGo ==
  [][ \A who \in Players :
        (/\ Played(who)
         /\ CountAfter(who) < 31
         /\ NobodyCanPlay(who)
         /\ ~Game'.gameOver
         /\ Len(Game'.playerPegHand) + Len(Game'.aiPegHand) > 0)
        => HandsOffTo(IF Len(pegHand(Game', other(who))) = 0 THEN who ELSE other(who))
    ]_vars

\* C10: the cut of a Jack gives the dealer 2 points, cut at 121, before any
\* card is pegged and leaves the non-dealer's score; any other cut leaves both
\* scores; a dealer brought to 121 ends the match and the pegging phase is not
\* entered.
C10_HisHeels ==
  [][ (Game.phase = "cut" /\ Game'.starter # Game.starter)
      => /\ score(Game', other(Game.dealer)) = score(Game, other(Game.dealer))
         /\ score(Game', Game.dealer) =
              IF rank(Game'.starter) = JackRank
              THEN Min(score(Game, Game.dealer) + 2, WIN_SCORE)
              ELSE score(Game, Game.dealer)
         /\ Game'.pegStack = <<>>
         /\ IF score(Game', Game.dealer) = WIN_SCORE
            THEN Game'.gameOver /\ Game'.phase = "gameover"
            ELSE Game'.phase = "pegging"
    ]_vars

\* C10 witness: a Jack was cut with the dealer at 120: the dealer stands at
\* 121, the match is over and no peg hand was dealt out
C10_Witness ==
  /\ Game.starter # NoCard
  /\ rank(Game.starter) = JackRank
  /\ Game.gameOver
  /\ Len(dom.toasts) = 1
  /\ dom.toasts[1].desc = "His Heels"
  /\ score(Game, Game.dealer) = WIN_SCORE
  /\ score(Game, other(Game.dealer)) = 120

\* the saved scoring hand of who
savedHand(g, who) == IF who = "player" THEN g.savedPlayerHand ELSE g.savedAiHand

\* the k-th scoring event of the round of game record g: non-dealer's hand,
\* dealer's hand, dealer's crib
ScoringEvent(g, k) ==
  CASE k = 1 -> [who |-> other(g.dealer), hand |-> savedHand(g, other(g.dealer)),
                 isCrib |-> FALSE]
    [] k = 2 -> [who |-> g.dealer, hand |-> savedHand(g, g.dealer), isCrib |-> FALSE]
    [] OTHER -> [who |-> g.dealer, hand |-> g.crib, isCrib |-> TRUE]

\* the scoring overlay shows the k-th scoring event of g, scored against g's starter
ShowsEvent(d, g, k) ==
  /\ g.starter # NoCard
  /\ d.onclick = [who |-> ScoringEvent(g, k).who,
                  hand |-> ScoringEvent(g, k).hand,
                  isCrib |-> ScoringEvent(g, k).isCrib,
                  total |-> scoreHand(ScoringEvent(g, k).hand, g.starter,
                                      ScoringEvent(g, k).isCrib).total]

\* the step is a click on OK of the scoring overlay
ScoringOkStep == ~dom.scoringHidden /\ dom'.scoringHidden /\ ~NewGameStep

\* C11: the scoring queue is filled only by the step that ends a finished
\* pegging phase; the overlay then shows the events in the order non-dealer's
\* hand, dealer's hand, dealer's crib (one per shift of the queue), each scored
\* against the round's starter; a click on OK credits the shown total to the
\* shown player, and if it brings a score to 121 no further event is scheduled.
C11_ScoringOrder ==
  [][ /\ Len(Game'.scoringQueue) > Len(Game.scoringQueue)
           => /\ Game.phase = "pegging" /\ Game'.phase = "scoring"
              /\ Len(Game.playerPegHand) + Len(Game.aiPegHand) = 0
              /\ Game.scoringQueue = <<>>
              /\ Len(Game'.scoringQueue) = 2
      /\ (dom.scoringHidden /\ ~dom'.scoringHidden)
           => /\ Game'.phase = "scoring"
              /\ ShowsEvent(dom', Game', 3 - Len(Game'.scoringQueue))
      /\ ScoringOkStep
           => /\ Game.phase = "scoring"
              /\ ShowsEvent(dom, Game, 3 - Len(Game.scoringQueue))
              /\ score(Game', dom.onclick.who) =
                   Min(score(Game, dom.onclick.who) + dom.onclick.total, WIN_SCORE)
              /\ score(Game', other(dom.onclick.who)) = score(Game, other(dom.onclick.who))
              /\ Game'.gameOver => timers' = timers
    ]_vars

\* the step runs the due callback: it leaves the timer queue without it
FiresDue == timers # <<>> /\ (\E i \in 1..Len(timers) : timers[i].left = 0)
            /\ timers' = RemoveAt(timers, due - 1)

\* the step deals a round other than the first of a match
NextRoundStep == Game.phase # "discard" /\ Game'.phase = "discard" /\ ~NewGameStep

\* C12: within a match the dealer changes only in the step that finds the
\* scoring queue empty after the crib was shown and credited, that step deals
\* the next round (phase discard) with the other dealer, and every step that
\* deals the next round of a match changes the dealer; showNextScoring run
\* with an empty queue in a match not over always is such a step.
C12_DealerFlips ==
  [][ /\ (Game'.dealer # Game.dealer /\ ~NewGameStep)
           => /\ Game.phase = "scoring"
              /\ Game.scoringQueue = <<>>
              /\ dom.scoringHidden
              /\ ShowsEvent(dom, Game, 3)
              /\ Game'.phase = "discard"
              /\ Game'.dealer = other(Game.dealer)
      /\ NextRoundStep => Game'.dealer = other(Game.dealer)
      /\ (FiresDue /\ isDue("showNextScoring") /\ startsRound)
           => Game'.dealer = other(Game.dealer) /\ Game'.phase = "discard"
    ]_vars

\* the phase changes the round's cycle allows
PhaseCycle ==
  { <<"discard", "cut">>, <<"cut", "pegging">>, <<"pegging", "scoring">>,
    <<"scoring", "discard">> }

\* C13: within a match a step that changes the phase follows the cycle
\* discard, cut, pegging, scoring, discard or ends the match (gameover), and
\* a step that changes a score starts neither in phase discard nor, in phase
\* cut, without drawing the starter.
C13_PhaseOrder ==
  [][ ~NewGameStep =>
        /\ Game'.phase # Game.phase
             => \/ <<Game.phase, Game'.phase>> \in PhaseCycle
                \/ Game'.phase = "gameover"
        /\ (\E who \in Players : score(Game', who) # score(Game, who))
             => /\ Game.phase # "discard"
                /\ Game.phase = "cut" => Game.starter = NoCard /\ Game'.starter # NoCard
    ]_vars

\* the conditions under which playerPegPlay returns before it plays the card
IllegalPlay(g, card) ==
  \/ g.phase # "pegging"
  \/ g.pegTurn # "player"
  \/ g.pegCount + value(card) > 31
  \/ card \notin Range(g.playerPegHand)

\* the part of the game record a peg play works on
PegState(g) ==
  << g.pegStack, g.pegCount, g.playerPegHand, g.aiPegHand, g.lastPegPlayer,
     g.playerSaidGo, g.aiSaidGo, g.playerScore, g.aiScore >>

\* the cards a playerPegPlay call is tried with: those with a click listener,
\* those of both hands and those on the stack
TriedCards ==
  dom.playable \cup Range(Game.playerHand) \cup Range(Game.playerPegHand)
    \cup Range(Game.aiPegHand) \cup Range(Game.pegStack)

\* C14: in every reachable state playerPegPlay with a card that is illegal
\* (phase not pegging, not the player's turn, count past 31, or card not in
\* the player's peg hand) leaves stack, count, both peg hands, last-player
\* marker, go flags, both scores and the timer queue as they are.
C14_Rejected ==
  \A card \in TriedCards :
    IllegalPlay(Game, card)
      => /\ PegState(playerPegPlay(World, card).G) = PegState(Game)
         /\ playerPegPlay(World, card).T = timers

\* C14: it is the player's turn in the pegging phase with cards played, the
\* player holds a card that would push the count past 31 beside one that
\* fits, and the AI holds cards as well
C14_Witness ==
  /\ Game.phase = "pegging"
  /\ Game.pegTurn = "player"
  /\ Game.pegStack # <<>>
  /\ Game.aiPegHand # <<>>
  /\ dom.playable # {}
  /\ \E card \in Range(Game.playerPegHand) : Game.pegCount + value(card) > 31

\* who's go flag
saidGo(g, who) == IF who = "player" THEN g.playerSaidGo ELSE g.aiSaidGo

\* in the pegging phase a go flag is set only for a player without a legal card
GoMeansStuck(g) ==
  g.phase = "pegging"
    => \A who \in Players : saidGo(g, who) => ~canPlay(pegHand(g, who), g.pegCount)

\* the step passes who over: it schedules the opponent's turn after the go delay
PassesOver(who) ==
  /\ Len(timers') = Len(timers) + 1
  /\ timers'[Len(timers')] = [cb |-> "startPegTurn", arg |-> other(who), left |-> GoDelay]

\* C15: in every reachable state of the pegging phase playerSaidGo holds only
\* if no card of the player's peg hand fits under 31, and aiSaidGo likewise for
\* the AI; a step that passes a player over (go: the opponent's turn scheduled
\* after the go delay) sets that player's flag and the player holds no legal card.
C15_GoOnlyWhenStuck ==
  /\ GoMeansStuck(Game)
  /\ [][ /\ GoMeansStuck(Game')
         /\ \A who \in Players :
              PassesOver(who)
                => /\ saidGo(Game', who)
                   /\ ~canPlay(pegHand(Game', who), Game'.pegCount)
       ]_vars

\* C15: the player has said go holding cards, none of which fits, and the AI
\* goes on playing under 31
C15_Witness ==
  /\ Game.phase = "pegging"
  /\ Game.playerSaidGo
  /\ Game.playerPegHand # <<>>
  /\ Game.pegCount < 31
  /\ Game.pegTurn = "ai"
  /\ canPlay(Game.aiPegHand, Game.pegCount)

\* both players have discarded and the starter is not cut yet
BeforeCut(g) == g.phase = "cut" /\ g.starter = NoCard

\* C16 as claimed: after both players have discarded 2 cards each and before
\* the starter is cut, exactly 44 cards remain in the deck.
C16_Deck44 == BeforeCut(Game) => Len(Game.deck) = 44

\* C16, with the count the code keeps: after both players have discarded 2
\* cards each and before the starter is cut, the deck holds the 52 cards less
\* the two deals of 6, that is 40; the 4 discards are in the crib, not in the
\* deck, and each hand holds 4 cards.
C16_Deck40 ==
  BeforeCut(Game)
    => /\ Len(Game.deck) = Len(makeDeck) - 2 * DealSize
       /\ Len(Game.deck) = 40
       /\ Len(Game.crib) = 4
       /\ Len(Game.playerHand) = 4 /\ Len(Game.aiHand) = 4
       /\ Range(Game.crib) \cap Range(Game.deck) = {}

\* C16: both players have discarded, the crib holds the four discards and the
\* starter is not cut yet
C16_Witness ==
  /\ BeforeCut(Game)
  /\ Len(Game.crib) = 4
  /\ ~dom.btnDisabled

\* ═══════════════════════════════════════════════════════════
\*  HAND SCORING ON ITS OWN
\* ═══════════════════════════════════════════════════════════
\* the kept hands and cribs explored: J♠ 4♥ A♦ 2♣, four spades, four hearts
\* with the jack, three spades and a diamond, four diamonds with the jack
HandPool ==
  { << 10, 16, 26, 40 >>, << 1, 4, 8, 12 >>, << 14, 17, 20, 23 >>,
    << 0, 3, 6, 30 >>, << 27, 31, 33, 36 >> }

\* the starters explored: 3♠, 7♥, 7♣
Starters == { 2, 19, 45 }

\* the scores (player, AI) the pegging phase is explored to have ended with
ScoringStarts ==
  { << 0, 0 >>, << 90, 119 >>, << 119, 90 >>, << 91, 119 >>, << 119, 91 >> }

\* the pegging phase has just ended: both peg hands are empty, the sub-round
\* is reset and startScoring is scheduled
InitScoring ==
  \E sc \in ScoringStarts, d \in Players, hp \in HandPool, ha \in HandPool,
     cr \in HandPool, st \in Starters :
    LET used == Range(hp) \cup Range(ha) \cup Range(cr) \cup {st}
        inDeck(c) == c \notin used
    IN /\ hp # ha /\ hp # cr /\ ha # cr
       /\ Game = [Game0 EXCEPT !.playerScore = sc[1],
                               !.aiScore = sc[2],
                               !.dealer = d,
                               !.phase = "pegging",
                               !.deck = Filter(makeDeck, inDeck),
                               !.playerHand = hp,
                               !.aiHand = ha,
                               !.savedPlayerHand = hp,
                               !.savedAiHand = ha,
                               !.crib = cr,
                               !.starter = st,
                               !.pegTurn = "ai"]
       /\ dom = [dom0 EXCEPT !.btnDisabled = TRUE]
       /\ timers = << [cb |-> "startScoring", arg |-> "null", left |-> LeadDelay] >>
       /\ rounds = 1
       /\ early = 0

ScoringNext ==
  \/ Tick
  \/ FireStartScoring
  \/ ClickScoringOk
  \/ FireShowNextScoring

ScoringSpec == InitScoring /\ [][ScoringNext]_vars

\* the loser's score once the match is over
finalLoserScore == score(Game, other(dom.gameoverMessage.winner))

\* C17: when the match is over the winner named by the result holds 121 and
\* the result is flagged a skunk if and only if the loser's score is below 91
\* (90: skunk, 91: no skunk), whoever wins.
C17_Skunk ==
  Game.gameOver
    => /\ dom.gameoverMessage.winner \in Players
       /\ score(Game, dom.gameoverMessage.winner) = WIN_SCORE
       /\ dom.gameoverMessage.skunk <=> finalLoserScore < 91
       /\ finalLoserScore = 90 => dom.gameoverMessage.skunk
       /\ finalLoserScore = 91 => ~dom.gameoverMessage.skunk

\* C17: the match is over with the loser at exactly 91, no skunk
C17_Witness ==
  /\ Game.gameOver
  /\ ~dom.gameoverHidden
  /\ finalLoserScore = 91
  /\ ~dom.gameoverMessage.skunk

\* who's hand of the round
handOf(g, who) == IF who = "player" THEN g.playerHand ELSE g.aiHand

\* the step is confirmDiscard: it ends the discard phase
ConfirmDiscardStep == Game.phase = "discard" /\ Game'.phase = "cut"

\* the step puts a hand other than the crib on the scoring overlay
ShowsHandStep ==
  /\ dom'.scoringHidden = FALSE
  /\ dom'.onclick # dom.onclick \/ dom.scoringHidden
  /\ ~dom'.onclick.isCrib

\* C18: the step that ends the discard phase saves for each player exactly
\* the 4 cards kept of the 6 dealt (the other 2 go to the crib); no other
\* step, in particular no peg play, go, or sub-round reset, changes a saved
\* hand, while peg plays take their cards off the peg hands; and a hand put
\* on the scoring overlay is the owner's saved hand, scored by scoreHand
\* against the starter.
C18_SavedHands ==
  [][ /\ ConfirmDiscardStep
           => \A who \in Players :
                /\ savedHand(Game', who) = handOf(Game', who)
                /\ Len(savedHand(Game', who)) = 4
                /\ Cardinality(Range(savedHand(Game', who))) = 4
                /\ Range(savedHand(Game', who)) \subseteq Range(handOf(Game, who))
                /\ Range(handOf(Game, who)) \ Range(savedHand(Game', who))
                     \subseteq Range(Game'.crib)
      /\ ~ConfirmDiscardStep
           => \A who \in Players : savedHand(Game', who) = savedHand(Game, who)
      /\ \A who \in Players :
           Played(who) => /\ handOf(Game', who) = handOf(Game, who)
                          /\ PlayedCard(who) \in Range(savedHand(Game', who))
      /\ ShowsHandStep
           => /\ dom'.onclick.hand = savedHand(Game', dom'.onclick.who)
              /\ Game'.starter # NoCard
              /\ dom'.onclick.total
                   = scoreHand(savedHand(Game', dom'.onclick.who), Game'.starter, FALSE).total
    ]_vars

\* C18: pegging has consumed both peg hands and the scoring overlay shows the
\* dealer's saved hand, the 4 cards kept at the discard
C18_Witness ==
  /\ Game.phase = "scoring"
  /\ ~dom.scoringHidden
  /\ ~dom.onclick.isCrib
  /\ dom.onclick.who = Game.dealer
  /\ dom.onclick.hand = savedHand(Game, Game.dealer)
  /\ Len(dom.onclick.hand) = 4
  /\ savedHand(Game, Game.dealer) = handOf(Game, Game.dealer)
  /\ Game.playerPegHand = <<>> /\ Game.aiPegHand = <<>>

\* the points of the flush entries of a breakdown
flushPoints(details) ==
  LET isFlush(d) == d.desc \in {"Flush: 5 cards", "Flush: 4 cards"}
  IN totalOf(Filter(details, isFlush))

\* the four cards of the hand share a suit
FourFlush(hand) == \A i \in 1..Len(hand), j \in 1..Len(hand) : suit(hand[i]) = suit(hand[j])

\* the flush points the rules give a four-card hand or crib with the starter
FlushRule(hand, starter, isCrib) ==
  IF FourFlush(hand) /\ suit(starter) = suit(hand[1]) THEN 5
  ELSE IF FourFlush(hand) /\ ~isCrib THEN 4
  ELSE 0

\* C19: for each of the round's three scoring events (two hands and the crib,
\* four cards each) the flush entries of scoreHand's breakdown are worth
\* exactly 5 when the four cards and the starter share a suit (hand and crib
\* alike, never 4 + 5), exactly 4 when the four cards share a suit, the
\* starter does not and isCrib is false, and 0 otherwise, in particular for a
\* crib of four cards of one suit with a starter of another; and the total on
\* the scoring overlay is scoreHand's total with that flush component.
C19_Flush ==
  Game.starter # NoCard
    => /\ \A k \in 1..3 :
            Len(ScoringEvent(Game, k).hand) = 4
              => flushPoints(scoreHand(ScoringEvent(Game, k).hand, Game.starter,
                                       ScoringEvent(Game, k).isCrib).details)
                   = FlushRule(ScoringEvent(Game, k).hand, Game.starter,
                               ScoringEvent(Game, k).isCrib)
       /\ (~dom.scoringHidden /\ Len(dom.onclick.hand) = 4)
            => dom.onclick.total
                 = totalOf(fifteens(dom.onclick.hand \o <<Game.starter>>))
                   + totalOf(pairs(dom.onclick.hand \o <<Game.starter>>))
                   + totalOf(runs(dom.onclick.hand \o <<Game.starter>>))
                   + FlushRule(dom.onclick.hand, Game.starter, dom.onclick.isCrib)
                   + totalOf(nobs(dom.onclick.hand, Game.starter))

\* C19: the scoring overlay shows a crib of four cards of one suit with a
\* starter of another suit
C19_Witness ==
  /\ ~dom.scoringHidden
  /\ dom.onclick.isCrib
  /\ Len(dom.onclick.hand) = 4
  /\ FourFlush(dom.onclick.hand)
  /\ Game.starter # NoCard
  /\ suit(Game.starter) # suit(dom.onclick.hand[1])
  /\ dom.onclick.total = scoreHand(dom.onclick.hand, Game.starter, TRUE).total

\* J♠ 4♥ A♦ 2♣, a hand of the pool, and the starter 3♠
JackHand == << makeCard(JackRank, 0), makeCard(3, 1), makeCard(0, 2), makeCard(1, 3) >>

ThreeOfSpades == makeCard(2, 0)

\* the scoring overlay shows JackHand, scored as a hand against the 3♠
ShowsJackHand ==
  /\ ~dom.scoringHidden
  /\ dom.onclick.hand = JackHand
  /\ ~dom.onclick.isCrib
  /\ Game.starter = ThreeOfSpades

\* C20 as claimed: scoreHand on J♠ 4♥ A♦ 2♣ with starter 3♠ and isCrib false
\* returns total 4 with the single entry "Run of 4" worth 4.
C20_RunOnly ==
  ShowsJackHand
    => /\ dom.onclick.total = 4
       /\ scoreHand(JackHand, ThreeOfSpades, FALSE)
            = [total |-> 4, details |-> << [desc |-> "Run of 4", points |-> 4] >>]

\* C20, with the result the code returns: scoreHand on J♠ 4♥ A♦ 2♣ with
\* starter 3♠ and isCrib false returns total 9 with four entries: two
\* fifteens of 2 points (J + 4 + A and J + 2 + 3), one "Run of 4" (A 2 3 4)
\* worth 4, and nobs (J♠ with a spade starter) worth 1.
C20_Total9 ==
  ShowsJackHand
    => /\ dom.onclick.total = 9
       /\ scoreHand(JackHand, ThreeOfSpades, FALSE)
            = [total |-> 9,
               details |-> << [desc |-> "15", points |-> 2],
                              [desc |-> "15", points |-> 2],
                              [desc |-> "Run of 4", points |-> 4],
                              [desc |-> "Nobs", points |-> 1] >>]

\* C20: the overlay shows J♠ 4♥ A♦ 2♣ scored as the player's hand against 3♠
C20_Witness ==
  /\ ShowsJackHand
  /\ dom.onclick.who = "player"
  /\ Game.phase = "scoring"

\* ═══════════════════════════════════════════════════════════
\*  PEGGING ON ITS OWN
\* ═══════════════════════════════════════════════════════════
\* the cards already on the stack are drawn from A♠ 2♥ 3♠ 4♣ 5♠ 5♥
StackCards == { 0, 14, 2, 42, 4, 17 }

\* at most this many cards lie on the stack when the exploration starts
MaxStart == 2

\* the stacks explored: the cards of StackCards in every order, none twice
StartStacks ==
  { s \in UNION { [1..n -> StackCards] : n \in 0..MaxStart } :
      \A i \in 1..Len(s), j \in 1..Len(s) : i # j => s[i] # s[j] }

\* the peg hands (player, AI) explored: low cards that pair and run with the
\* stack (5♦ 3♥ 6♠ against 5♣ 2♠ 4♥), and high cards that force a go
\* (K♠ 7♠ A♥ against K♥ J♦ 3♦)
PegHands ==
  { << << 30, 15, 5 >>, << 43, 1, 16 >> >>,
    << << 12, 6, 13 >>, << 25, 36, 28 >> >> }

\* a sub-round in progress: the cards of the stack are played, the turn of
\* next is scheduled
InitPegging ==
  \E stack \in StartStacks, hands \in PegHands, next \in Players :
    /\ Game = [Game0 EXCEPT !.phase = "pegging",
                            !.starter = 45,
                            !.crib = << 8, 9, 10, 11 >>,
                            !.playerHand = hands[1],
                            !.aiHand = hands[2],
                            !.savedPlayerHand = hands[1],
                            !.savedAiHand = hands[2],
                            !.playerPegHand = hands[1],
                            !.aiPegHand = hands[2],
                            !.pegStack = stack,
                            !.pegCount = SumSeq([i \in 1..Len(stack) |-> value(stack[i])]),
                            !.lastPegPlayer = IF stack = <<>> THEN "null" ELSE other(next),
                            !.pegTurn = other(next)]
    /\ dom = [dom0 EXCEPT !.btnDisabled = TRUE]
    /\ timers = << [cb |-> "startPegTurn", arg |-> next,
                    left |-> IF stack = <<>> THEN LeadDelay ELSE TurnDelay] >>
    /\ rounds = 1
    /\ early = 0

\* click on any card of #player-hand that carries a playerPegPlay listener,
\* no callback pending
ClickPlayableCard ==
  /\ timers = <<>>
  /\ \E card \in dom.playable : Becomes(playerPegPlay(World, card))
  /\ UNCHANGED <<rounds, early>>

PeggingNext ==
  \/ Tick
  \/ ClickPlayableCard
  \/ FireStartPegTurn
  \/ FireDoAiPegTurn
  \/ FireStartScoring

PeggingSpec == InitPegging /\ [][PeggingNext]_vars

\* the points of the entries of a breakdown with one of the descriptions
pointsOf(details, descs) ==
  LET isOne(d) == d.desc \in descs
  IN totalOf(Filter(details, isOne))

SameRankDescs == { "Pair", "Three of a kind", "Four of a kind" }

RunDescs == { "Run of 3", "Run of 4", "Run of 5", "Run" }

\* the number of consecutive cards at the end of the stack that share the
\* last card's rank
SameRankTail(stack) ==
  CHOOSE n \in 1..Len(stack) :
    /\ \A i \in (Len(stack) - n + 1)..Len(stack) : rank(stack[i]) = rank(stack[Len(stack)])
    /\ n < Len(stack) => rank(stack[Len(stack) - n]) # rank(stack[Len(stack)])

\* the award for n cards of one rank in a row
SameRankAward(n) ==
  CASE n = 2 -> 2
    [] n = 3 -> 6
    [] n = 4 -> 12
    [] OTHER -> 0

\* C21: for the peg stack of every reachable state, if not empty, scorePeg's
\* same-rank entries are worth exactly 0, 2, 6 or 12 points for 1, 2, 3 or 4
\* consecutive cards of the last card's rank at the end of the stack, in one
\* entry at most, and with 2 or more such cards there are no run points; the
\* step that plays a card shows and awards scorePeg's points for the new stack.
C21_SameRank ==
  /\ Game.pegStack # <<>>
       => /\ pointsOf(scorePeg(Game.pegStack, Game.pegCount).details, SameRankDescs)
               = SameRankAward(SameRankTail(Game.pegStack))
          /\ SameRankTail(Game.pegStack) >= 2
               => pointsOf(scorePeg(Game.pegStack, Game.pegCount).details, RunDescs) = 0
          /\ SameRankTail(Game.pegStack) <= 4
  /\ (dom.toasts # <<>> /\ dom.toasts[1].desc = "Peg" /\ Game.pegStack # <<>>)
       => dom.toasts[1].points = scorePeg(Game.pegStack, Game.pegCount).points

\* C21: the fourth card of one rank in a row has just been played for 12
\* points, shown in the toast
C21_Witness ==
  /\ Len(Game.pegStack) = 4
  /\ SameRankTail(Game.pegStack) = 4
  /\ dom.toasts # <<>>
  /\ dom.toasts[1].desc = "Peg"
  /\ dom.toasts[1].points = 12

\* the random levels aiPegPlay can draw for a hand
Jitters(hand) == [1..Len(hand) -> 0..(JitterLevels - 1)]

\* what aiPegPlay can return in the state of game record g
AiChoices(g) ==
  { aiPegPlay(g.aiPegHand, g.pegStack, g.pegCount, rnd) : rnd \in Jitters(g.aiPegHand) }

\* the step is doAiPegTurn run in the pegging phase of a match not over
AiTurnStep ==
  FiresDue /\ isDue("doAiPegTurn") /\ Game.phase = "pegging" /\ ~Game.gameOver

\* in the pegging phase aiPegPlay returns null exactly when no card of the
\* AI's peg hand fits, and otherwise a card of that hand that fits
AiChoosesLegal(g) ==
  g.phase = "pegging"
    => IF canPlay(g.aiPegHand, g.pegCount)
       THEN \A c \in AiChoices(g) :
              /\ c \in Range(g.aiPegHand)
              /\ g.pegCount + value(c) <= 31
       ELSE AiChoices(g) = { NoCard }

\* C22: in every state of the pegging phase aiPegPlay returns null exactly
\* when no card of the AI's peg hand fits under 31 and otherwise a card of
\* the AI's peg hand that fits; on its turn the AI plays such a card whenever
\* it holds one and otherwise says go and keeps its hand; no step takes an
\* illegal card off the AI's peg hand.
C22_AiLegal ==
  /\ AiChoosesLegal(Game)
  /\ [][ /\ AiChoosesLegal(Game')
         /\ AiTurnStep
              => IF canPlay(Game.aiPegHand, Game.pegCount)
                 THEN /\ Played("ai")
                      /\ PlayedCard("ai") \in AiChoices(Game)
                 ELSE /\ Game'.aiPegHand = Game.aiPegHand
                      /\ dom'.toasts # <<>>
                      /\ dom'.toasts[1].desc = "AI says Go"
         /\ Played("ai") => Game.pegCount + value(PlayedCard("ai")) <= 31
       ]_vars

\* C22: the AI has just played a card under 31 while it held another card
\* that did not fit
C22_Witness ==
  /\ Game.phase = "pegging"
  /\ Game.lastPegPlayer = "ai"
  /\ Game.pegStack # <<>>
  /\ \E c \in Range(Game.aiPegHand) :
       Game.pegCount - value(Game.pegStack[Len(Game.pegStack)]) + value(c) > 31

\* a click on a card with a listener would be accepted by playerPegPlay
CanClick == \E card \in dom.playable : ~IllegalPlay(Game, card)

\* every scheduled timer eventually fires and the player eventually clicks a
\* card whenever one can be played.  The fairness of the actions that score
\* is written out, with the condition under which the action is enabled.
PeggingFairSpec ==
  /\ PeggingSpec
  /\ WF_vars(Tick)
  /\ WF_vars(FireStartPegTurn)
  /\ ([]<>~(timers = <<>> /\ CanClick) \/ []<><<ClickPlayableCard>>_vars)
  /\ ([]<>~isDue("doAiPegTurn") \/ []<><<FireDoAiPegTurn>>_vars)
  /\ ([]<>~isDue("startScoring") \/ []<><<FireStartScoring>>_vars)

\* the pegging phase has ended: hand scoring has begun with both peg hands
\* played out, or the match is over
PeggingEnded ==
  \/ Game.gameOver
  \/ /\ Game.phase = "scoring"
     /\ Game.playerPegHand = <<>>
     /\ Game.aiPegHand = <<>>

\* C23: from every state of the pegging phase the game eventually reaches a
\* state where both peg hands are empty and hand scoring has begun, or the
\* match is over.
C23_PeggingEnds == (Game.phase = "pegging") ~> PeggingEnded

\* C23: the player holds cards but none that fits under 31, has said go, and
\* the turn has been handed to the AI instead of waiting for a click
C23_Witness ==
  /\ Game.phase = "pegging"
  /\ ~Game.gameOver
  /\ Game.playerSaidGo
  /\ Game.playerPegHand # <<>>
  /\ ~canPlay(Game.playerPegHand, Game.pegCount)
  /\ dom.playable = {}
  /\ \E i \in 1..Len(timers) : timers[i].cb = "startPegTurn" /\ timers[i].arg = "ai"

\* the cards of a round, pile after pile: the rest of the deck, both hands, the
\* crib and the starter once it is cut
Piles(g) ==
  g.deck \o g.playerHand \o g.aiHand \o g.crib
    \o (IF g.starter = NoCard THEN <<>> ELSE << g.starter >>)

\* no card is in two piles or twice in one, and the piles hold the 52 cards
Conserved(g) ==
  /\ Len(Piles(g)) = Len(makeDeck)
  /\ Range(Piles(g)) = Range(makeDeck)
  /\ Cardinality(Range(makeDeck)) = 52

\* the sizes of the piles after the deal and after the discards
PileSizes(g) ==
  /\ g.crib = <<>>
       => /\ Len(g.deck) = 40
          /\ Len(g.playerHand) = 6 /\ Len(g.aiHand) = 6
          /\ g.starter = NoCard
  /\ g.crib # <<>>
       => /\ Len(g.crib) = 4
          /\ Len(g.playerHand) = 4 /\ Len(g.aiHand) = 4
          /\ Len(g.deck) = IF g.starter = NoCard THEN 40 ELSE 39

CardsConserved(g) == g.phase # "idle" => Conserved(g) /\ PileSizes(g)

\* the discards go to the crib
CribFilled == Game.crib = <<>> /\ Game'.crib # <<>>

\* C24: at every point of a round the rest of the deck, the two hands, the
\* crib and the starter (once cut) are pairwise disjoint and hold each of the
\* 52 cards exactly once; after the deal the deck holds 40 cards and each hand
\* 6; after the discards each hand holds 4 and the crib exactly 4, two from
\* each player's dealt hand.
C24_CardConservation ==
  /\ CardsConserved(Game)
  /\ [][ /\ CardsConserved(Game')
         /\ CribFilled
              => /\ Cardinality(Range(Game'.crib) \cap Range(Game.playerHand)) = 2
                 /\ Cardinality(Range(Game'.crib) \cap Range(Game.aiHand)) = 2
                 /\ Range(Game'.playerHand) = Range(Game.playerHand) \ Range(Game'.crib)
                 /\ Range(Game'.aiHand) = Range(Game.aiHand) \ Range(Game'.crib)
                 /\ Game'.deck = Game.deck
       ]_vars

\* C24: the starter is cut, so the 52 cards lie in five piles: 39 in the
\* deck, 4 in each hand, 4 in the crib and the starter
C24_Witness ==
  /\ Game.phase = "pegging"
  /\ Game.starter # NoCard
  /\ Len(Game.deck) = 39
  /\ Len(Game.crib) = 4
  /\ Game.starter \notin Range(Game.deck)

\* the rank orders of the last n cards of the stack
TailOrders(stack, n) == { order(stack[i]) : i \in (Len(stack) - n + 1)..Len(stack) }

\* the last n cards are n distinct consecutive rank orders, in any play order
RunWindow(stack, n) ==
  /\ Cardinality(TailOrders(stack, n)) = n
  /\ \E lo \in TailOrders(stack, n) : TailOrders(stack, n) = lo..(lo + n - 1)

\* the length of the longest trailing window of 3 or more cards that is a
\* run, 0 when there is none
LongestRunWindow(stack) ==
  LET ns == { n \in 3..Len(stack) : RunWindow(stack, n) }
  IN IF ns = {} THEN 0 ELSE MaxOf(ns)

\* the stack has 3 or more cards and its last two differ in rank
RunCase(stack) ==
  /\ Len(stack) >= 3
  /\ rank(stack[Len(stack)]) # rank(stack[Len(stack) - 1])

\* the run entries of a breakdown
RunEntries(details) ==
  LET isRunEntry(d) == d.desc \in RunDescs
  IN Filter(details, isRunEntry)

\* C25: for the peg stack of every reachable state that has 3 or more cards
\* and whose last two cards differ in rank, scorePeg's run points are the
\* length of the longest trailing window whose rank orders are that many
\* distinct consecutive values, in any play order; that one run only is
\* scored, and nothing when there is no such window.
C25_PegRun ==
  RunCase(Game.pegStack)
    => /\ pointsOf(scorePeg(Game.pegStack, Game.pegCount).details, RunDescs)
            = LongestRunWindow(Game.pegStack)
       /\ Len(RunEntries(scorePeg(Game.pegStack, Game.pegCount).details))
            = IF LongestRunWindow(Game.pegStack) = 0 THEN 0 ELSE 1
       /\ scorePeg(Game.pegStack, Game.pegCount).points
            = LongestRunWindow(Game.pegStack)
                + (IF Game.pegCount = 15 \/ Game.pegCount = 31 THEN 2 ELSE 0)

\* C25: a card has just been played that completes a run out of play order,
\* on a stack that is not a run as a whole, and the run is in the points shown
C25_Witness ==
  /\ RunCase(Game.pegStack)
  /\ LongestRunWindow(Game.pegStack) >= 3
  /\ LongestRunWindow(Game.pegStack) < Len(Game.pegStack)
  /\ order(Game.pegStack[Len(Game.pegStack)]) < order(Game.pegStack[Len(Game.pegStack) - 1])
  /\ dom.toasts # <<>>
  /\ dom.toasts[1].desc = "Peg"
  /\ dom.toasts[1].points >= LongestRunWindow(Game.pegStack)

\* the cards of the hand aiPegPlay may play, in hand order
playableOf(hand, count) ==
  LET fits(c) == count + value(c) <= 31
  IN Filter(hand, fits)

\* the score aiPegPlay compares for the i-th playable card under the random
\* levels rnd, multiplied by JitterScale
candidateScore(g, i, rnd) ==
  pegCandidateScore(playableOf(g.aiPegHand, g.pegCount)[i], g.pegStack, g.pegCount)
    * JitterScale + rnd[i]

\* the card aiPegPlay returns for the random levels rnd is a playable card
\* whose score is at least the score of every playable card
PicksMax(g, rnd) ==
  \E k \in 1..Len(playableOf(g.aiPegHand, g.pegCount)) :
    /\ playableOf(g.aiPegHand, g.pegCount)[k]
         = aiPegPlay(g.aiPegHand, g.pegStack, g.pegCount, rnd)
    /\ \A j \in 1..Len(playableOf(g.aiPegHand, g.pegCount)) :
         candidateScore(g, k, rnd) >= candidateScore(g, j, rnd)

\* C26: whenever doAiPegTurn is due and the AI holds a playable card, for
\* every value of the random terms the card aiPegPlay returns is a playable
\* card whose score (the peg points times 10, plus 5 at 15, plus 5 at 31, plus
\* 1 under 5, minus 2 when 5, 10 or 15 are left to 31, plus its random term)
\* is at least the score of every other playable card.
C26_AiPicksMax ==
  (isDue("doAiPegTurn") /\ canPlay(Game.aiPegHand, Game.pegCount))
    => \A rnd \in Jitters(Game.aiPegHand) : PicksMax(Game, rnd)

=============================================================================
